---- MODULE Spec2Model ----
(***************************************************************************)
(* Project Devi: the /api/answer request handler in its six iterations,    *)
(* the pure helpers it is built from, and the pages that call it.          *)
(*                                                                         *)
(* Handlers (the value of variant):                                      *)
(*   "R1"  src/app/api/answer/route.ts:189-375                             *)
(*   "R2"  src/app/api/answer/route.ts:591-736                             *)
(*   "R3"  src/app/api/answer/route.ts:904-1056                            *)
(*   "P0"  src/unnamed/part_000:50-99                                      *)
(*   "P1A" src/unnamed/part_001:153-194                                    *)
(*   "P1B" src/unnamed/part_001:315-527                                    *)
(*                                                                         *)
(* Pages (the value of page):                                             *)
(*   "Home" src/app/page.tsx:48-600                                        *)
(*   "P3A"  src/unnamed/part_003:30-205                                    *)
(*   "P3B"  src/unnamed/part_003:213-372                                   *)
(*   "P4"   src/unnamed/part_004:19-230                                    *)
(*   "P6"   src/unnamed/part_006:5-80                                      *)
(*                                                                         *)
(* Text is a sequence of one-character strings; HTML is a sequence of      *)
(* tokens (tags, titles, words, whitespace, periods, citation clusters).   *)
(***************************************************************************)
EXTENDS Integers, Sequences, FiniteSets, TLC

VARIABLES
    variant,      \* which iteration of the handler is deployed
    TAVILY_KEY,   \* process.env.TAVILY_API_KEY is set
    GEMINI_KEY,   \* process.env.GEMINI_API_KEY is set
    FEEDBACK_WEBHOOK_URL, \* process.env.FEEDBACK_WEBHOOK_URL is set
    pc,           \* position of the handler: idle, searching, generating, responded
    question,     \* body.question of the request in hand (Missing when absent)
    userMode,     \* body.mode of the request in hand (Missing when absent)
    mode,         \* the mode the handler resolved
    titles,       \* sectionTitles(mode)
    sources,      \* the handler's internal source list
    response,     \* the response returned to the caller, NoResponse before
    calls,        \* outbound calls issued for the request in hand, in order
    webhook,      \* state of the fire-and-forget webhook call
    reqWebhook,   \* body.webhookUrl of the request in hand is set
    searchOutcome, \* what the search provider did: none, nokey, ok, notOk, netError, badJson
    searchReturned, \* what the search client gave the handler: none, empty, nonempty, threw
    genOutcome,   \* what generation came to: none, nokey, throw, unusable, usable
    thrown,       \* the failure seen by the handler's outer catch, NoError otherwise
    escaped,      \* an exception left the handler
    cq,           \* classifier check: the question
    cv,           \* classifier check: the handler whose classifier ran
    cmode,        \* classifier check: detectMode(cq)
    ctitles,      \* classifier check: sectionTitles(cmode)
    dtext,        \* dedupe check: the text given to dedupeCitations
    dv,           \* dedupe check: the handler whose dedupeCitations ran, "" before
    donce,        \* dedupe check: dedupeCitations(dtext)
    dtwice,       \* dedupe check: dedupeCitations(dedupeCitations(dtext))
    page,         \* which page component is mounted, "" when none
    qText,        \* the question input's value
    loading,      \* the page's loading state
    reqs,         \* reqs[r]: state of the r-th request to /api/answer
    shown,        \* what the answer area displays, and of which request
    history,      \* Home: the history list, first element on top
    now,          \* Home: Date.now() as last read
    lastKey,      \* Home: the last key event on the input, "" before
    lastKeyAsks,  \* Home: how many times that key event called ask
    FEEDBACK_HOOK, \* NEXT_PUBLIC_FEEDBACK_WEBHOOK_URL is set
    rated,        \* P3B: the rated state, "null" when unset
    feedbackGiven, \* P4: the feedbackGiven state
    feedbackLoading, \* P4: the feedbackLoading state
    fbSent,       \* feedback POSTs issued, each with the request whose answer it carried
    fbPending,    \* P4: feedback POSTs not yet settled
    ltext,        \* linkify check: the text given to linkifyCitations
    lmaxN,        \* linkify check: the maxN given to linkifyCitations
    lout,         \* linkify check: the result
    ldone         \* linkify check: linkifyCitations has run

vars == << variant, TAVILY_KEY, GEMINI_KEY, FEEDBACK_WEBHOOK_URL, pc, question,
           userMode, reqWebhook, mode, titles, sources, response, calls, webhook,
           searchOutcome, searchReturned, genOutcome, thrown, escaped,
           cq, cv, cmode, ctitles, dtext, dv, donce, dtwice,
           page, qText, loading, reqs, shown, history, now, lastKey,
           lastKeyAsks, FEEDBACK_HOOK, rated, feedbackGiven, feedbackLoading,
           fbSent, fbPending, ltext, lmaxN, lout, ldone >>

handlerVars == << variant, TAVILY_KEY, GEMINI_KEY, FEEDBACK_WEBHOOK_URL, pc,
                  question, userMode, reqWebhook, mode, titles, sources, response,
                  calls, webhook, searchOutcome, searchReturned, genOutcome,
                  thrown, escaped >>

classifyVars == << cq, cv, cmode, ctitles >>

dedupeVars == << dtext, dv, donce, dtwice >>

pageVars == << page, qText, loading, reqs, shown, history, now, lastKey,
               lastKeyAsks, FEEDBACK_HOOK, rated, feedbackGiven,
               feedbackLoading, fbSent, fbPending, ltext, lmaxN, lout, ldone >>

NothingShown == [kind |-> "none", of |-> 0]

\* no page is mounted and linkifyCitations is not under check
pageIdle ==
    /\ page = ""
    /\ qText = ""
    /\ loading = FALSE
    /\ reqs = << >>
    /\ shown = NothingShown
    /\ history = << >>
    /\ now = 0
    /\ lastKey = ""
    /\ lastKeyAsks = 0
    /\ FEEDBACK_HOOK = FALSE
    /\ rated = "null"
    /\ feedbackGiven = FALSE
    /\ feedbackLoading = FALSE
    /\ fbSent = << >>
    /\ fbPending = 0
    /\ ltext = << >>
    /\ lmaxN = 0
    /\ lout = << >>
    /\ ldone = FALSE

\* ------------------------------------------------------------------------
\* Bounds
\* ------------------------------------------------------------------------
\* Number of words concatenated into a question given to the classifier.
MaxWords == 2
\* Number of tokens of a text given to dedupeCitations on its own.
MaxDedupeLen == 5

\* Number of items the search provider returns.
MaxHits == 2

\* Number of tokens of a text given to linkifyCitations on its own.
MaxLinkLen == 2

\* Largest maxN given to linkifyCitations on its own.
MaxLinkN == 2

\* Number of requests a page sends to /api/answer.
MaxAsks == 3

\* ------------------------------------------------------------------------
\* Text
\* ------------------------------------------------------------------------
Missing == "<missing>"

Upper == << "A","B","C","D","E","F","G","H","I","J","K","L","M",
            "N","O","P","Q","R","S","T","U","V","W","X","Y","Z" >>
Lower == << "a","b","c","d","e","f","g","h","i","j","k","l","m",
            "n","o","p","q","r","s","t","u","v","w","x","y","z" >>

\* String.prototype.toLowerCase, one character
lowerChar(c) ==
    IF \E i \in 1..26 : Upper[i] = c
    THEN Lower[CHOOSE i \in 1..26 : Upper[i] = c]
    ELSE c

\* String.prototype.toLowerCase
toLowerCase(s) == [i \in 1..Len(s) |-> lowerChar(s[i])]

\* String.prototype.includes
includes(s, k) ==
    \E i \in 0..(Len(s) - Len(k)) : \A j \in 1..Len(k) : s[i + j] = k[j]

isSpace(c) == c \in {" ", "\n", "\t"}

RECURSIVE trimStart(_)
trimStart(s) ==
    IF s # << >> /\ isSpace(Head(s)) THEN trimStart(Tail(s)) ELSE s

RECURSIVE trimEnd(_)
trimEnd(s) ==
    IF s # << >> /\ isSpace(s[Len(s)]) THEN trimEnd(SubSeq(s, 1, Len(s) - 1)) ELSE s

\* String.prototype.trim
trim(s) == trimEnd(trimStart(s))

\* ------------------------------------------------------------------------
\* Mode detection and section titles
\* ------------------------------------------------------------------------
\* route.ts:67-91, the imaging keywords of the first handler
radioKeywords_R1 ==
    { <<"x", "r", "a", "y">>,
      <<"x", "-", "r", "a", "y">>,
      <<"x", "r", " ">>,
      <<"r", "a", "d", "i", "o", "g", "r", "a", "p", "h">>,
      <<"a", "p", " ", "v", "i", "e", "w">>,
      <<"l", "a", "t", "e", "r", "a", "l", " ", "v", "i", "e", "w">>,
      <<"c", "t", " ">>,
      <<"c", "o", "m", "p", "u", "t", "e", "d", " ", "t", "o", "m", "o", "g", "r", "a", "p", "h", "y">>,
      <<"m", "r", "i">>,
      <<"m", "r", " ", "i", "m", "a", "g", "i", "n", "g">>,
      <<"u", "l", "t", "r", "a", "s", "o", "u", "n", "d">>,
      <<"u", "s", "g">>,
      <<"r", "e", "p", "o", "r", "t">>,
      <<"i", "m", "p", "r", "e", "s", "s", "i", "o", "n">>,
      <<"d", "d", "x">>,
      <<"d", "i", "f", "f", "e", "r", "e", "n", "t", "i", "a", "l">>,
      <<"f", "i", "n", "d", "i", "n", "g", "s">>,
      <<"r", "a", "d", "i", "o", "l", "o", "g", "y">>,
      <<"s", "e", "q", "u", "e", "n", "c", "e">>,
      <<"c", "o", "n", "t", "r", "a", "s", "t">>,
      <<"t", "1">>,
      <<"t", "2">>,
      <<"s", "t", "i", "r">> }
\* route.ts:93-107
edKeywords_R1 ==
    { <<" ", "e", "d", " ">>,
      <<" ", "e", "m", "e", "r", "g", "e", "n", "c", "y">>,
      <<"t", "r", "i", "a", "g", "e">>,
      <<"r", "e", "s", "u", "s">>,
      <<"r", "e", "s", "u", "s", "c", "i", "t", "a", "t", "i", "o", "n">>,
      <<"a", "b", "c", "d", "e">>,
      <<"p", "r", "i", "m", "a", "r", "y", " ", "s", "u", "r", "v", "e", "y">>,
      <<"s", "e", "c", "o", "n", "d", "a", "r", "y", " ", "s", "u", "r", "v", "e", "y">>,
      <<"h", "y", "p", "o", "t", "e", "n", "s", "i", "o", "n">>,
      <<"u", "n", "s", "t", "a", "b", "l", "e">>,
      <<"s", "h", "o", "c", "k">>,
      <<"e", "r", " ", "a", "p", "p", "r", "o", "a", "c", "h">>,
      <<"i", "n", "i", "t", "i", "a", "l", " ", "s", "t", "a", "b", "i", "l", "i", "z", "a", "t", "i", "o", "n">> }
\* route.ts:431-448
radioKeywords_R2 ==
    { <<"x", "r", "a", "y">>,
      <<"x", "-", "r", "a", "y">>,
      <<"x", "r">>,
      <<"r", "a", "d", "i", "o", "g", "r", "a", "p", "h">>,
      <<"a", "p", " ", "v", "i", "e", "w">>,
      <<"l", "a", "t", "e", "r", "a", "l", " ", "v", "i", "e", "w">>,
      <<"c", "t">>,
      <<"c", "o", "m", "p", "u", "t", "e", "d", " ", "t", "o", "m", "o", "g", "r", "a", "p", "h", "y">>,
      <<"m", "r", "i">>,
      <<"u", "l", "t", "r", "a", "s", "o", "u", "n", "d">>,
      <<"u", "s", "g">>,
      <<"r", "e", "p", "o", "r", "t">>,
      <<"i", "m", "p", "r", "e", "s", "s", "i", "o", "n">>,
      <<"f", "i", "n", "d", "i", "n", "g", "s">>,
      <<"s", "e", "q", "u", "e", "n", "c", "e">>,
      <<"c", "o", "n", "t", "r", "a", "s", "t">> }
\* route.ts:450-462
edKeywords_R2 ==
    { <<"e", "d", " ">>,
      <<" ", "e", "m", "e", "r", "g", "e", "n", "c", "y">>,
      <<"t", "r", "i", "a", "g", "e">>,
      <<"r", "e", "s", "u", "s">>,
      <<"r", "e", "s", "u", "s", "c", "i", "t", "a", "t", "i", "o", "n">>,
      <<"a", "b", "c", "d", "e">>,
      <<"p", "r", "i", "m", "a", "r", "y", " ", "s", "u", "r", "v", "e", "y">>,
      <<"s", "e", "c", "o", "n", "d", "a", "r", "y", " ", "s", "u", "r", "v", "e", "y">>,
      <<"u", "n", "s", "t", "a", "b", "l", "e">>,
      <<"s", "h", "o", "c", "k">>,
      <<"h", "y", "p", "o", "t", "e", "n", "s", "i", "o", "n">> }
\* route.ts:762-783
radioKeywords_R3 ==
    { <<"x", "r", "a", "y">>,
      <<"x", "-", "r", "a", "y">>,
      <<"x", "r">>,
      <<"r", "a", "d", "i", "o", "g", "r", "a", "p", "h">>,
      <<"a", "p", " ", "v", "i", "e", "w">>,
      <<"l", "a", "t", "e", "r", "a", "l", " ", "v", "i", "e", "w">>,
      <<"c", "t">>,
      <<"c", "o", "m", "p", "u", "t", "e", "d", " ", "t", "o", "m", "o", "g", "r", "a", "p", "h", "y">>,
      <<"m", "r", "i">>,
      <<"u", "l", "t", "r", "a", "s", "o", "u", "n", "d">>,
      <<"u", "s", "g">>,
      <<"i", "m", "p", "r", "e", "s", "s", "i", "o", "n">>,
      <<"f", "i", "n", "d", "i", "n", "g", "s">>,
      <<"c", "o", "n", "t", "r", "a", "s", "t">>,
      <<"s", "e", "q", "u", "e", "n", "c", "e">>,
      <<"t", "1">>,
      <<"t", "2">>,
      <<"s", "t", "i", "r">>,
      <<"c", "t", "a">>,
      <<"c", "t", "p", "a">> }
\* route.ts:785-800
edKeywords_R3 ==
    { <<"e", "d", " ">>,
      <<" ", "e", "m", "e", "r", "g", "e", "n", "c", "y">>,
      <<"t", "r", "i", "a", "g", "e">>,
      <<"r", "e", "s", "u", "s">>,
      <<"r", "e", "s", "u", "s", "c", "i", "t", "a", "t", "i", "o", "n">>,
      <<"a", "b", "c", "d", "e">>,
      <<"p", "r", "i", "m", "a", "r", "y", " ", "s", "u", "r", "v", "e", "y">>,
      <<"s", "e", "c", "o", "n", "d", "a", "r", "y", " ", "s", "u", "r", "v", "e", "y">>,
      <<"h", "y", "p", "o", "t", "e", "n", "s", "i", "o", "n">>,
      <<"u", "n", "s", "t", "a", "b", "l", "e">>,
      <<"s", "h", "o", "c", "k">>,
      <<"e", "r", " ", "a", "p", "p", "r", "o", "a", "c", "h">>,
      <<"i", "n", "i", "t", "i", "a", "l", " ", "s", "t", "a", "b", "i", "l", "i", "z", "a", "t", "i", "o", "n">>,
      <<"p", "o", "l", "y", "t", "r", "a", "u", "m", "a">> }
\* part_001:214-218
radioKeywords_P1B ==
    { <<"x", "r", "a", "y">>,
      <<"x", "-", "r", "a", "y">>,
      <<"x", "r">>,
      <<"r", "a", "d", "i", "o", "g", "r", "a", "p", "h">>,
      <<"a", "p", " ", "v", "i", "e", "w">>,
      <<"l", "a", "t", "e", "r", "a", "l", " ", "v", "i", "e", "w">>,
      <<"c", "t">>,
      <<"c", "o", "m", "p", "u", "t", "e", "d", " ", "t", "o", "m", "o", "g", "r", "a", "p", "h", "y">>,
      <<"m", "r", "i">>,
      <<"m", "r", " ", "i", "m", "a", "g", "i", "n", "g">>,
      <<"u", "l", "t", "r", "a", "s", "o", "u", "n", "d">>,
      <<"u", "s", "g">>,
      <<"r", "e", "p", "o", "r", "t">>,
      <<"i", "m", "p", "r", "e", "s", "s", "i", "o", "n">>,
      <<"f", "i", "n", "d", "i", "n", "g", "s">>,
      <<"s", "e", "q", "u", "e", "n", "c", "e">>,
      <<"t", "1">>,
      <<"t", "2">>,
      <<"s", "t", "i", "r">> }
\* part_001:220-224
edKeywords_P1B ==
    { <<"e", "d", " ">>,
      <<" ", "e", "m", "e", "r", "g", "e", "n", "c", "y">>,
      <<"t", "r", "i", "a", "g", "e">>,
      <<"r", "e", "s", "u", "s">>,
      <<"r", "e", "s", "u", "s", "c", "i", "t", "a", "t", "i", "o", "n">>,
      <<"a", "b", "c", "d", "e">>,
      <<"p", "r", "i", "m", "a", "r", "y", " ", "s", "u", "r", "v", "e", "y">>,
      <<"s", "e", "c", "o", "n", "d", "a", "r", "y", " ", "s", "u", "r", "v", "e", "y">>,
      <<"h", "y", "p", "o", "t", "e", "n", "s", "i", "o", "n">>,
      <<"s", "h", "o", "c", "k">>,
      <<"e", "r", " ", "a", "p", "p", "r", "o", "a", "c", "h">>,
      <<"i", "n", "i", "t", "i", "a", "l", " ", "s", "t", "a", "b", "i", "l", "i", "z", "a", "t", "i", "o", "n">> }

ModeVariants == {"R1", "R2", "R3", "P1B"}

radioKeywords(v) ==
    CASE v = "R1" -> radioKeywords_R1
      [] v = "R2" -> radioKeywords_R2
      [] v = "R3" -> radioKeywords_R3
      [] OTHER    -> radioKeywords_P1B

edKeywords(v) ==
    CASE v = "R1" -> edKeywords_R1
      [] v = "R2" -> edKeywords_R2
      [] v = "R3" -> edKeywords_R3
      [] OTHER    -> edKeywords_P1B

\* the decision of detectMode given the two hit flags, with the precedence inverted
decideMode_emergencyLoses(radioHits, edHits) ==
    IF radioHits THEN "radiology"
    ELSE IF edHits THEN "emergency"
    ELSE "ortho"

\* route.ts:109-111 (and 464-466, 802-804, part_001:226-228)
decideMode(radioHits, edHits) ==
    IF radioHits /\ ~edHits THEN "radiology"
    ELSE IF edHits THEN "emergency"
    ELSE "ortho"

\* detectMode of handler v
detectMode(v, q) ==
    LET s == toLowerCase(q)
        radioHits == \E k \in radioKeywords(v) : includes(s, k)
        edHits == \E k \in edKeywords(v) : includes(s, k)
    IN  decideMode(radioHits, edHits)

RadiologyTitles ==
    << "Clinical Question", "Key Imaging Findings", "Differential Diagnosis",
       "What to Look For", "Suggested Report Impression" >>

EmergencyTitles ==
    << "Triage/Red Flags", "Initial Stabilization", "Focused Assessment",
       "Immediate Management", "Disposition/Follow-up" >>

OrthoTitles ==
    << "Classification", "Risk Factors", "Associated Injuries",
       "Initial Management", "Definitive/Follow-up" >>

\* sectionTitlesFor with the radiology list in another order
sectionTitlesFor_shuffled(m) ==
    IF m = "radiology"
    THEN << "Key Imaging Findings", "Clinical Question", "Differential Diagnosis",
            "What to Look For", "Suggested Report Impression" >>
    ELSE IF m = "emergency" THEN EmergencyTitles
    ELSE OrthoTitles

\* sectionTitlesFor / sectionTitles: the same in every handler that has modes
sectionTitlesFor(m) ==
    IF m = "radiology" THEN RadiologyTitles
    ELSE IF m = "emergency" THEN EmergencyTitles
    ELSE OrthoTitles

\* ------------------------------------------------------------------------
\* Questions
\* ------------------------------------------------------------------------
GartlandQuestion ==
    <<"G", "a", "r", "t", "l", "a", "n", "d", " ", "t", "y", "p", "e", " ", "I", "I", " ", "s", "u", "p", "r", "a", "c", "o", "n", "d", "y", "l", "a", "r", " ", "h", "u", "m", "e", "r", "u", "s", " ", "f", "r", "a", "c", "t", "u", "r", "e", " ", "emdash", " ", "w", "h", "a", "t", " ", "s", "h", "o", "u", "l", "d", " ", "I", " ", "k", "n", "o", "w", "?">>
W_CTchest == <<"C", "T", " ", "c", "h", "e", "s", "t">>
W_ABCDE == <<"A", "B", "C", "D", "E">>
W_unstable == <<"u", "n", "s", "t", "a", "b", "l", "e">>
W_fracture == <<"f", "r", "a", "c", "t", "u", "r", "e">>
W_knee == <<" ", "k", "n", "e", "e", " ">>
W_injured == <<"i", "n", "j", "u", "r", "e", "d", " ">>
W_XR == <<"X", "R">>
W_Shock == <<"S", "h", "o", "c", "k">>

\* words a classifier question is built from
Words ==
    { W_CTchest, W_ABCDE, W_unstable, W_fracture, W_knee, W_injured, W_XR, W_Shock }

RECURSIVE WordSeqs(_)
WordSeqs(n) ==
    IF n = 0 THEN { << >> }
    ELSE LET shorter == WordSeqs(n - 1)
         IN  shorter \cup { s \o w : s \in shorter, w \in Words }

\* the questions the classifier is checked on
ClassifyQuestions ==
    WordSeqs(MaxWords) \cup { GartlandQuestion, W_CTchest \o W_ABCDE \o W_unstable }

\* ------------------------------------------------------------------------
\* HTML as tokens
\* ------------------------------------------------------------------------
CiteTokens == { "[1]", "[2]", "[3]", "[4]", "[5]", "[6]", "[9]", "[1, 2]" }

\* the source ids a citation cluster names
citeIds(t) ==
    CASE t = "[1]" -> {1} [] t = "[2]" -> {2} [] t = "[3]" -> {3}
      [] t = "[4]" -> {4} [] t = "[5]" -> {5} [] t = "[6]" -> {6}
      [] t = "[9]" -> {9} [] t = "[1, 2]" -> {1, 2} [] OTHER -> {}

\* the text "[i]" for the indices the fallback templates use
citeToken(i) ==
    CASE i = 1 -> "[1]" [] i = 2 -> "[2]" [] i = 3 -> "[3]"
      [] i = 4 -> "[4]" [] i = 5 -> "[5]" [] i = 6 -> "[6]" [] OTHER -> "[9]"

isWs(t) == t \in { " ", "\n" }
isDivOpen(t) == t \in { "<div>", "<div mb>", "<div fw>", "<div pad>" }
isUlOpen(t) == t \in { "<ul>", "<ul*>" }

\* the least element of a non-empty set of numbers
MinOf(S) == CHOOSE x \in S : \A y \in S : x <= y

At(s, i) == IF i >= 1 /\ i <= Len(s) THEN s[i] ELSE "<eof>"

RECURSIVE skipWs(_, _)
skipWs(s, i) == IF i <= Len(s) /\ isWs(s[i]) THEN skipWs(s, i + 1) ELSE i

RECURSIVE trimStartT(_)
trimStartT(s) == IF s # << >> /\ isWs(Head(s)) THEN trimStartT(Tail(s)) ELSE s

RECURSIVE trimEndT(_)
trimEndT(s) ==
    IF s # << >> /\ isWs(s[Len(s)]) THEN trimEndT(SubSeq(s, 1, Len(s) - 1)) ELSE s

\* String.prototype.trim on tokens
trimT(s) == trimEndT(trimStartT(s))

RECURSIVE concat(_)
concat(ss) == IF ss = << >> THEN << >> ELSE Head(ss) \o concat(Tail(ss))

\* ul(items), route.ts:51-55
ul(items) ==
    << "<ul*>" >> \o concat([i \in 1..Len(items) |-> << "<li>" >> \o items[i] \o << "</li>" >>])
        \o << "</ul>" >>

\* sec(title, items), route.ts:56-61
sec(title, items) ==
    IF Len(items) = 0 THEN << >>
    ELSE << "<div mb>", "<div fw>", title, "</div>" >> \o ul(items) \o << "</div>" >>

\* a template bullet: text, a citation, a period
bullet(c) == << "w", " ", c, "." >>

\* the padding bullet of ensureMinBullets: a dash and a citation
padBullet(c) == << "emdash", " ", c >>

\* ensureMinBullets(items, min = 3, cite = "[1]"), route.ts:421-425
RECURSIVE ensureMinBullets(_, _, _)
ensureMinBullets(items, min, c) ==
    IF Len(items) < min THEN ensureMinBullets(Append(items, padBullet(c)), min, c)
    ELSE items

\* ------------------------------------------------------------------------
\* Fallback templates: per handler and mode, the section titles as the
\* template writes them and the citation index of each bullet
\* ------------------------------------------------------------------------
\* route.ts:288-352
template_R1(m) ==
    IF m = "radiology" THEN
        << << "Clinical Question", << 1 >> >>,
           << "Key Imaging Findings", << 1, 2, 3 >> >>,
           << "Differential Diagnosis", << 2 >> >>,
           << "What to Look For", << 3 >> >>,
           << "Suggested Report Impression", << 1 >> >> >>
    ELSE IF m = "emergency" THEN
        << << "Triage/Red Flags", << 1, 2, 3 >> >>,
           << "Initial Stabilization", << 1, 3, 2 >> >>,
           << "Focused Assessment", << 2, 3 >> >>,
           << "Immediate Management", << 1, 2 >> >>,
           << "Disposition/Follow-up", << 2 >> >> >>
    ELSE
        << << "Classification", << 1, 4, 6 >> >>,
           << "Risk Factors", << 2, 5 >> >>,
           << "Associated Injuries", << 3, 2 >> >>,
           << "Initial Management", << 1, 4, 2 >> >>,
           << "Definitive/Follow-up", << 2, 5 >> >> >>

\* route.ts:647-705 (the bullets written out, before ensureMinBullets pads them)
template_R2(m) ==
    IF m = "radiology" THEN
        << << "Clinical Question", << 1 >> >>,
           << "Key Imaging Findings", << 1, 2 >> >>,
           << "Differential Diagnosis", << 2 >> >>,
           << "What to Look For", << 3 >> >>,
           << "Suggested Report Impression", << 1 >> >> >>
    ELSE IF m = "emergency" THEN
        << << "Triage/Red Flags", << 1 >> >>,
           << "Initial Stabilization", << 1 >> >>,
           << "Focused Assessment", << 2 >> >>,
           << "Immediate Management", << 3 >> >>,
           << "Disposition/Follow-up", << 2 >> >> >>
    ELSE
        << << "Classification", << 1 >> >>,
           << "Risk Factors", << 2 >> >>,
           << "Associated Injuries", << 3 >> >>,
           << "Initial Management", << 1 >> >>,
           << "Definitive/Follow-up", << 2 >> >> >>

\* route.ts:1006-1027
template_R3(m) ==
    IF m = "radiology" THEN
        << << "Clinical Question", << 1 >> >>,
           << "Key Imaging Findings", << 1 >> >>,
           << "Differential Diagnosis", << 2 >> >>,
           << "What to Look For", << 3 >> >>,
           << "Suggested Report Impression", << 1 >> >> >>
    ELSE IF m = "emergency" THEN
        << << "Triage/Red Flags", << 1 >> >>,
           << "Initial Stabilization", << 1 >> >>,
           << "Focused Assessment", << 2 >> >>,
           << "Immediate Management", << 3 >> >>,
           << "Disposition/Follow-up", << 2 >> >> >>
    ELSE
        << << "Classification", << 1 >> >>,
           << "Risk Factors", << 2 >> >>,
           << "Associated Injuries", << 3 >> >>,
           << "Initial Management", << 1 >> >>,
           << "Definitive/Follow-up", << 2 >> >> >>

\* part_001:415-496
template_P1B(m) ==
    IF m = "radiology" THEN
        << << "Clinical Question", << 1, 2, 3 >> >>,
           << "Key Imaging Findings", << 1, 2, 3 >> >>,
           << "Differential Diagnosis", << 2, 3, 1 >> >>,
           << "What to Look For", << 3, 2, 1 >> >>,
           << "Suggested Report Impression", << 1, 2, 3 >> >> >>
    ELSE IF m = "emergency" THEN
        << << "Triage/Red Flags", << 1, 2, 3 >> >>,
           << "Initial Stabilization", << 1, 2, 3 >> >>,
           << "Focused Assessment", << 2, 1, 3 >> >>,
           << "Immediate Management", << 1, 2, 3 >> >>,
           << "Disposition/Follow-up", << 2, 3, 1 >> >> >>
    ELSE
        << << "Classification", << 1, 2, 3 >> >>,
           << "Risk Factors", << 1, 2, 3 >> >>,
           << "Associated Injuries", << 1, 2, 3 >> >>,
           << "Initial Management", << 1, 2, 3 >> >>,
           << "Definitive/Follow-up", << 1, 2, 3 >> >> >>

\* the template of a handler with its last section left out
template_lastMissing(v, m) ==
    LET t == CASE v = "R1" -> template_R1(m)
               [] v = "R2" -> template_R2(m)
               [] v = "R3" -> template_R3(m)
               [] OTHER    -> template_P1B(m)
    IN  SubSeq(t, 1, Len(t) - 1)

template(v, m) ==
    CASE v = "R1" -> template_R1(m)
      [] v = "R2" -> template_R2(m)
      [] v = "R3" -> template_R3(m)
      [] OTHER    -> template_P1B(m)

Min(a, b) == IF a < b THEN a ELSE b

\* the citation written for index i when n sources are in hand:
\* safe(i) in R1 and R3 (route.ts:287, 1005), cite(n) in R2 (route.ts:646),
\* safe(i) in P1B (part_001:414)
safe(v, i, n) ==
    IF v \in {"R2", "P1B"} THEN citeToken(Min(i, n)) ELSE citeToken(i)

\* the bullets of one template section
templateItems(v, title, cites, n) ==
    LET written == [k \in 1..Len(cites) |-> bullet(safe(v, cites[k], n))]
    IN  IF v = "R2"
        THEN \* route.ts:649-666: Key Imaging Findings pads with cite(), the rest with "[1]"
             IF title = "Key Imaging Findings"
             THEN ensureMinBullets(written, 3, safe(v, 1, n))
             ELSE ensureMinBullets(written, 3, "[1]")
        ELSE written

\* step 4 of the handler: the template answer of mode m with n sources
fallback(v, m, n) ==
    LET t == template(v, m)
    IN  concat([k \in 1..Len(t) |-> sec(t[k][1], templateItems(v, t[k][1], t[k][2], n))])

\* ------------------------------------------------------------------------
\* Cleaning the generation output
\* ------------------------------------------------------------------------
\* the second replace of stripFences: a fence at the very end is removed
dropEndFence(s) ==
    IF s # << >> /\ s[Len(s)] = "<fence>" THEN SubSeq(s, 1, Len(s) - 1) ELSE s

\* route.ts:271: a leading html fence with the whitespace after it, a fence
\* at the end, then trim
stripFences_R1(s) ==
    LET a == IF At(s, 1) = "<fence>" /\ At(s, 2) = "html"
             THEN SubSeq(s, skipWs(s, 3), Len(s)) ELSE s
    IN  trimT(dropEndFence(a))

\* index of the first fence token at or after i, 0 when there is none
nextFence(s, i) ==
    LET F == { k \in i..Len(s) : s[k] = "<fence>" }
    IN  IF F = {} THEN 0 ELSE MinOf(F)

\* index of the first "fence+html" that has a closing fence after it, 0 when none
firstHtmlFence(s, i) ==
    LET F == { k \in i..(Len(s) - 1) :
                 s[k] = "<fence>" /\ s[k + 1] = "html" /\ nextFence(s, k + 2) # 0 }
    IN  IF F = {} THEN 0 ELSE MinOf(F)

\* route.ts:416-418: the first html fence that is closed later is replaced by
\* what it encloses, then trim
stripFences_R2(s) ==
    LET i == firstHtmlFence(s, 1)
    IN  IF i = 0 THEN trimT(s)
        ELSE LET c == nextFence(s, i + 2)
                 inner == trimT(SubSeq(s, i + 2, c - 1))
             IN  trimT(SubSeq(s, 1, i - 1) \o inner \o SubSeq(s, c + 1, Len(s)))

\* route.ts:894-899 and part_001:274-276:
\* a leading fence with or without the html tag, a fence at the end, then trim
stripFences_R3(s) ==
    LET a == IF At(s, 1) = "<fence>"
             THEN SubSeq(s, skipWs(s, IF At(s, 2) = "html" THEN 3 ELSE 2), Len(s))
             ELSE s
    IN  trimT(dropEndFence(a))

\* a div opening tag with a div closing tag after it, or a bare ul tag:
\* route.ts:274, 636, part_001:405
looksHtml_R1(s) ==
    \/ \E i, j \in 1..Len(s) : i < j /\ isDivOpen(s[i]) /\ s[j] = "</div>"
    \/ \E i \in 1..Len(s) : s[i] = "<ul>"

\* any ul or div opening tag, route.ts:996
looksHtml_R3(s) == \E i \in 1..Len(s) : isDivOpen(s[i]) \/ isUlOpen(s[i])

\* --- dedupeCitations ------------------------------------------------------
\* end of "cluster, optional period, whitespace, same cluster" starting at the
\* cluster at i, 0 when there is no match
citePairEnd(s, i) ==
    LET j == skipWs(s, i + 1)
    IN  IF At(s, j) = "."
        THEN LET k == skipWs(s, j + 1) IN IF At(s, k) = s[i] THEN k ELSE 0
        ELSE IF At(s, j) = s[i] THEN j ELSE 0

\* the greedy repeats: the end of the last repeat after position e
RECURSIVE moreRepeats(_, _, _)
moreRepeats(s, c, e) ==
    LET j == skipWs(s, e + 1)
    IN  IF At(s, j) = c THEN moreRepeats(s, c, j) ELSE e

\* route.ts:147: a cluster, an optional period, then one or more repeats of
\* the same cluster, each after optional whitespace
matchEnd_R1(s, i) ==
    IF At(s, i) \notin CiteTokens THEN 0
    ELSE LET e == citePairEnd(s, i)
         IN  IF e = 0 THEN 0 ELSE moreRepeats(s, s[i], e)

\* the unit s[i..u] is followed by a copy of itself
unitRepeats(s, i, u) ==
    LET L == u - i + 1
    IN  u + L <= Len(s) /\ SubSeq(s, u + 1, u + L) = SubSeq(s, i, u)

\* the greedy copies: the end of the last copy of the unit of length L after e
RECURSIVE moreUnits(_, _, _, _)
moreUnits(s, i, L, e) ==
    IF e + L <= Len(s) /\ SubSeq(s, e + 1, e + L) = SubSeq(s, i, i + L - 1)
    THEN moreUnits(s, i, L, e + L)
    ELSE e

\* route.ts:412: a unit (cluster, optional period, whitespace) followed by one
\* or more exact copies of the whole unit
\* the unit is the cluster with its separator; the regex engine tries the
\* longest separator first
matchEnd_R2(s, i) ==
    IF At(s, i) \notin CiteTokens THEN 0
    ELSE LET a == skipWs(s, i + 1)
             hi == IF At(s, a) = "." THEN skipWs(s, a + 1) - 1 ELSE a - 1
             ok == { u \in i..hi : unitRepeats(s, i, u) }
         IN  IF ok = {} THEN 0
             ELSE LET u == CHOOSE x \in ok : \A y \in ok : y <= x
                  IN  moreUnits(s, i, u - i + 1, u)

\* route.ts:889 and part_001:270: a cluster, an optional period, whitespace,
\* and the same cluster once more
\* (part_001 writes the flags as gg, which no JavaScript engine accepts; the
\* regular expression is read here with the flag g it was meant to carry)
matchEnd_R3(s, i) ==
    IF At(s, i) \notin CiteTokens THEN 0 ELSE citePairEnd(s, i)

matchEnd(v, s, i) ==
    CASE v = "R1" -> matchEnd_R1(s, i)
      [] v = "R2" -> matchEnd_R2(s, i)
      [] OTHER    -> matchEnd_R3(s, i)

\* String.prototype.replace with a global regex: leftmost matches, left to
\* right, each replaced by its cluster
RECURSIVE replaceMatches(_, _, _)
replaceMatches(v, s, i) ==
    LET M == { k \in i..Len(s) : matchEnd(v, s, k) # 0 }
    IN  IF M = {} THEN SubSeq(s, i, Len(s))
        ELSE LET k == MinOf(M)
             IN  SubSeq(s, i, k) \o replaceMatches(v, s, matchEnd(v, s, k) + 1)

\* route.ts:890: every run of two or more whitespace characters becomes one space
RECURSIVE collapseSpaces(_)
collapseSpaces(s) ==
    LET R == { k \in 1..(Len(s) - 1) : isWs(s[k]) /\ isWs(s[k + 1]) }
    IN  IF R = {} THEN s
        ELSE LET k == MinOf(R)
             IN  SubSeq(s, 1, k - 1) \o << " " >>
                    \o collapseSpaces(SubSeq(s, skipWs(s, k), Len(s)))

\* dedupeCitations of handler v: route.ts:145-150, 409-413, 887-891, part_001:269-271
dedupeCitations(v, s) ==
    IF v = "R3" THEN collapseSpaces(replaceMatches(v, s, 1))
    ELSE replaceMatches(v, s, 1)

\* ------------------------------------------------------------------------
\* Search results
\* ------------------------------------------------------------------------
NoError == "<no error>"
NonString == "<not a string>"

\* what the search provider may return: an item with a title, an item with no
\* title whose url carries a query string and a fragment, an item of a
\* guideline domain, and an item with neither title nor url
ItemA == [url |-> "https://a.org/p", title |-> "A", content |-> << "s", "a" >>]
ItemB == [url |-> "https://a.org/p?x=1#f", title |-> "", content |-> << "s", "b" >>]
ItemW == [url |-> "https://who.int/g", title |-> "W", content |-> << >>]
ItemBad == [url |-> Missing, title |-> "", content |-> << >>]
Items == { ItemA, ItemB, ItemW }

RECURSIVE SeqsUpTo(_, _)
SeqsUpTo(S, n) ==
    IF n = 0 THEN { << >> }
    ELSE LET shorter == SeqsUpTo(S, n - 1)
         IN  shorter \cup { Append(s, x) : s \in { t \in shorter : Len(t) = n - 1 }, x \in S }

\* messages an exception raised outside the handler's own code may carry
ErrMsgs == { "", "E1", "E2" }

SearchOutcomes ==
    { [kind |-> "ok", hits |-> h, msg |-> ""] : h \in SeqsUpTo(Items, MaxHits) }
    \cup { [kind |-> "ok", hits |-> << ItemBad >>, msg |-> ""] }
    \cup { [kind |-> "notOk", hits |-> << >>, msg |-> ""] }
    \cup { [kind |-> k, hits |-> << >>, msg |-> m] : k \in {"netError", "badJson"}, m \in ErrMsgs }

\* url.replace: the leading http:// or https:// is removed
stripScheme(u) ==
    CASE u = "https://a.org/p" -> "a.org/p"
      [] u = "https://a.org/p?x=1#f" -> "a.org/p?x=1#f"
      [] u = "https://who.int/g" -> "who.int/g"
      [] OTHER -> u

\* score(u) of rankSources, route.ts:524-532: who.int scores 4, a.org scores 0
score(u) == IF u = "https://who.int/g" THEN 4 ELSE 0

RECURSIVE byScoreFrom(_, _)
byScoreFrom(items, sc) ==
    IF sc < 0 THEN << >>
    ELSE SelectSeq(items, LAMBDA h : score(h.url) = sc) \o byScoreFrom(items, sc - 1)

\* rankSources, route.ts:523-534: a stable sort by descending score (0..10)
rankSources(items) == byScoreFrom(items, 10)

\* Array.prototype.slice(0, n) and String.prototype.slice(0, n)
slice(s, n) == SubSeq(s, 1, Min(Len(s), n))

\* what webSearch / webSearchWithTavily / fetchSources gives its caller when the
\* provider answered with outcome o: the items, or an exception
\* route.ts:17-48, 499-520, 839-869; part_000:13-38; part_001:69-108, 279-312
webSearch(v, o) ==
    IF o.kind = "ok" THEN [threw |-> FALSE, msg |-> "", hits |-> o.hits]
    ELSE IF o.kind = "notOk" THEN
        IF v = "P1A" THEN [threw |-> TRUE, msg |-> "Tavily error", hits |-> << >>]
        ELSE [threw |-> FALSE, msg |-> "", hits |-> << >>]
    ELSE \* fetch or r.json() rejected
        IF v \in {"R3", "P1A"} THEN [threw |-> TRUE, msg |-> o.msg, hits |-> << >>]
        ELSE [threw |-> FALSE, msg |-> "", hits |-> << >>]

\* toSources numbering from zero
toSources_zeroBased(v, hits) ==
    [i \in 1..Len(hits) |->
        [id |-> i - 1, title |-> hits[i].title, url |-> hits[i].url,
         content |-> hits[i].content]]

\* hits.map((h, i) => ({id: i + 1, title: h.title || h.url.replace(...), url, content}))
\* route.ts:209-214, 608-613, 923-928; part_001:327-332
\* part_000:29-34 and part_001:94-105 name the snippet excerpt
toSources(v, hits) ==
    [i \in 1..Len(hits) |->
        [id |-> i,
         title |-> IF hits[i].title # "" THEN hits[i].title
                   ELSE IF v = "P1A" THEN "Untitled"
                   ELSE IF v = "P0" THEN (IF hits[i].url # Missing THEN hits[i].url ELSE "Source")
                   ELSE stripScheme(hits[i].url),
         url |-> IF v = "P0" /\ hits[i].url = Missing THEN "" ELSE hits[i].url,
         content |-> slice(hits[i].content,
                           CASE v = "R2" -> 1200 [] v = "P1A" -> 220 [] v = "P0" -> Len(hits[i].content)
                             [] OTHER -> 1400)]]

\* sources.map(({ id, title, url }) => ({ id, title, url })), route.ts:355, 712, 1034
publicSources(srcs) ==
    [i \in 1..Len(srcs) |-> [id |-> srcs[i].id, title |-> srcs[i].title, url |-> srcs[i].url]]

\* ------------------------------------------------------------------------
\* Responses
\* ------------------------------------------------------------------------
\* a response: its status, the fields of its JSON body (has) and their values
NoResponse ==
    [status |-> 0, has |-> {}, error |-> "", answer |-> << >>, sources |-> << >>,
     mode |-> "", ok |-> FALSE, question |-> << >>, bullets |-> << >>, raw |-> << >>]

NoSourcesMsg == "No reliable sources found"

\* a no-sources answer that is an empty block without the message
noSourcesHtml_blank(v) == << "<div>", "</div>" >>

\* the html of the no-sources answer: route.ts:217, 616, 932; part_001:335-337
noSourcesHtml(v) ==
    CASE v = "R1" -> << "<div pad>", NoSourcesMsg, "</div>" >>
      [] v = "P1B" -> << "<div mb>", "<div fw>", "No Sources", "</div>" >>
                        \o ul(<< << NoSourcesMsg >> >>) \o << "</div>" >>
      [] OTHER -> << "<div>", NoSourcesMsg, "</div>" >>

\* NextResponse.json({ answer, sources, mode }, { status: 200 })
answerResponse(html, srcs, m) ==
    [NoResponse EXCEPT !.status = 200, !.has = {"answer", "sources", "mode"},
                       !.answer = html, !.sources = srcs, !.mode = m]

\* the 400 of the validation: route.ts:197-200, 600, 912-915; part_000:54-57;
\* part_001:158-161, 319
invalidResponse(v) ==
    CASE v = "P0" -> [NoResponse EXCEPT !.status = 400, !.error = "Missing question",
                                        !.has = {"ok", "question", "bullets", "sources", "error"}]
      [] v = "P1A" -> [NoResponse EXCEPT !.status = 400, !.has = {"error"},
                                         !.error = "Missing 'question' (string) in request body."]
      [] OTHER -> [NoResponse EXCEPT !.status = 400, !.has = {"error"},
                                     !.error = "Ask a valid question."]

\* the body the outer catch builds from the exception's message:
\* route.ts:369-374, 730-735, 1050-1055; part_000:88-98; part_001:183-193, 524-526
errorResponse(v, msg) ==
    CASE v = "P0" -> [NoResponse EXCEPT !.status = 500, !.error = msg,
                                        !.has = {"ok", "question", "bullets", "sources", "error"}]
      [] v = "P1A" -> [NoResponse EXCEPT !.status = 500, !.has = {"ok", "error"}, !.error = msg]
      [] OTHER -> [NoResponse EXCEPT !.status = 500, !.has = {"error"},
                                     !.error = IF msg = "" THEN "Server error." ELSE msg]

\* ------------------------------------------------------------------------
\* Generation output
\* ------------------------------------------------------------------------
SectionHtml(title, c) ==
    << "<div fw>", title, "</div>", "<ul>", "<li>", "w", " ", c, "</li>", "</ul>" >>

GoodOrtho == SectionHtml("Classification", "[1]") \o SectionHtml("Initial Management", "[2]")

\* the texts the generation provider may return
GenTexts ==
    { GoodOrtho,
      SectionHtml("Prognosis", "[1]"),
      SectionHtml("Risk Factors", "[1]") \o SectionHtml("Classification", "[1]"),
      << "<fence>", "html", "\n" >> \o GoodOrtho \o << "\n", "<fence>" >>,
      << "<fence>", "\n" >> \o GoodOrtho \o << "\n", "<fence>" >>,
      << "w", " ", "w", "." >>,
      << >>,
      << "<div fw>", "Classification", "</div>", "<ul>", "</ul>" >>,
      << "<div fw>", "Classification", "</div>", "<ul>", "<li>", "w", " ", "[1]", ".", " ", "[1]",
         "</li>", "<li>", "w", " ", "[9]", "</li>", "</ul>" >>,
      << "-", " ", "w", " ", "[1]", "\n", "-", " ", "w", "\n", "\n", "Sources:", "\n", "[1]", " ", "w" >> }

GenOutcomes ==
    { [kind |-> "text", text |-> t, msg |-> ""] : t \in GenTexts }
    \cup { [kind |-> "throw", text |-> << >>, msg |-> m] : m \in ErrMsgs }

\* text.split("\n")
RECURSIVE splitLines(_)
splitLines(s) ==
    IF \A i \in 1..Len(s) : s[i] # "\n" THEN << s >>
    ELSE LET i == MinOf({ k \in 1..Len(s) : s[k] = "\n" })
         IN  << SubSeq(s, 1, i - 1) >> \o splitLines(SubSeq(s, i + 1, Len(s)))

isMarker(t) == t \in { "-", ".", "1", "2" }

\* toBullets, part_000:40-48: lines, trimmed, the empty ones dropped, one leading
\* dash, bullet, digit or period removed with the whitespace after it, the
\* empty ones dropped, the first 12 kept
toBullets(text) ==
    LET lines == splitLines(text)
        trimmed == [i \in 1..Len(lines) |-> trimT(lines[i])]
        kept == SelectSeq(trimmed, LAMBDA l : Len(l) > 0)
        stripped == [i \in 1..Len(kept) |->
                        IF isMarker(kept[i][1])
                        THEN SubSeq(kept[i], skipWs(kept[i], 2), Len(kept[i]))
                        ELSE kept[i]]
    IN  slice(SelectSeq(stripped, LAMBDA l : Len(l) > 0), 12)

\* the part of the text before a line that starts with "Sources:", part_001:144
beforeSources(s) ==
    LET cut == { i \in 1..Len(s) : s[i] = "\n" /\ At(s, skipWs(s, i + 1)) = "Sources:" }
    IN  IF cut = {} THEN s
        ELSE SubSeq(s, 1, MinOf(cut) - 1)

\* a line that starts with a dash or bullet, or a number and a period, and
\* whitespace: part_001:54
bulletPrefixEnd(l) ==
    IF At(l, 1) = "-" /\ isWs(At(l, 2)) THEN skipWs(l, 2)
    ELSE IF At(l, 1) \in {"1", "2"} /\ At(l, 2) = "." /\ isWs(At(l, 3)) THEN skipWs(l, 3)
    ELSE 0

\* text.split at whitespace that follows a period, part_001:60
RECURSIVE splitSentences(_)
splitSentences(s) ==
    LET at == { i \in 2..Len(s) : isWs(s[i]) /\ s[i - 1] = "." }
    IN  IF at = {} THEN << s >>
        ELSE LET i == MinOf(at)
             IN  << SubSeq(s, 1, i - 1) >> \o splitSentences(SubSeq(s, skipWs(s, i), Len(s)))

\* textToBullets, part_001:49-66
textToBullets(text) ==
    LET lines == splitLines(text)
        trimmed == [i \in 1..Len(lines) |-> trimT(lines[i])]
        marked == SelectSeq(trimmed, LAMBDA l : bulletPrefixEnd(l) # 0)
        bullets == [i \in 1..Len(marked) |->
                       SubSeq(marked[i], bulletPrefixEnd(marked[i]), Len(marked[i]))]
        sentences == splitSentences(text)
        strimmed == [i \in 1..Len(sentences) |-> trimT(sentences[i])]
    IN  IF Len(bullets) = 0
        THEN slice(SelectSeq(strimmed, LAMBDA l : Len(l) > 0), 10)
        ELSE slice(bullets, 10)

\* ------------------------------------------------------------------------
\* The request handler POST
\* ------------------------------------------------------------------------
Variants == {"R1", "R2", "R3", "P0", "P1A", "P1B"}

\* handlers that resolve a mode and return { answer, sources, mode }
Pipeline == {"R1", "R2", "R3", "P1B"}

Str(s) == [kind |-> "string", text |-> s]

\* no request body has been read
NoQuestion == [kind |-> "none", text |-> << >>]

\* body.question of the requests sent to the handler
HandlerQuestions ==
    { [kind |-> "missing", text |-> << >>],
      [kind |-> "number", text |-> << >>],
      Str(<< >>), Str(<< " ", " " >>), Str(<< " ", "a", "b", " " >>),
      Str(W_CTchest), Str(W_ABCDE), Str(W_knee) }

\* body.mode of the requests sent to the handler
UserModes == { Missing, "auto", "radiology", "emergency", "ortho", "cardiology" }

\* the handler's per-request state before a request is read
fresh ==
    [pc |-> "idle", mode |-> "", titles |-> << >>, sources |-> << >>,
     response |-> NoResponse, calls |-> << >>, webhook |-> "none",
     searchOutcome |-> "none", searchReturned |-> "none", genOutcome |-> "none",
     thrown |-> NoError, escaped |-> FALSE]

current ==
    [pc |-> pc, mode |-> mode, titles |-> titles, sources |-> sources,
     response |-> response, calls |-> calls, webhook |-> webhook,
     searchOutcome |-> searchOutcome, searchReturned |-> searchReturned,
     genOutcome |-> genOutcome, thrown |-> thrown, escaped |-> escaped]

\* return NextResponse.json(...)
respond(h, r) == [h EXCEPT !.pc = "responded", !.response = r]

\* a handler whose outer catch is missing: the exception leaves POST
catchTop_absent(v, h, msg) ==
    [h EXCEPT !.pc = "responded", !.thrown = msg, !.escaped = TRUE]

\* the outer catch of POST: route.ts:369-374, 730-735, 1050-1055;
\* part_000:88-98; part_001:183-193, 524-526
catchTop(v, h, msg) ==
    respond([h EXCEPT !.thrown = msg], errorResponse(v, msg))

\* whether the handler has a webhook to post to: route.ts:162, 577-578, 1068;
\* part_001:339, 504
webhookConfigured(v, rw) ==
    CASE v \in {"R1", "R3", "P1B"} -> FEEDBACK_WEBHOOK_URL
      [] v = "R2" -> rw \/ FEEDBACK_WEBHOOK_URL
      [] OTHER -> FALSE

\* the fetch to the webhook is issued and not awaited
sendWebhook(h) == [h EXCEPT !.calls = Append(@, "webhook"), !.webhook = "inflight"]

\* a handler that awaits the webhook call before it builds its response
finish_awaitsWebhook(v, h, html, rw) ==
    IF webhookConfigured(v, rw)
    THEN [sendWebhook(h) EXCEPT !.pc = "awaiting"]
    ELSE respond(h, answerResponse(html, publicSources(h.sources), h.mode))

\* step 5: public sources, the webhook call, the 200 response
\* route.ts:355-368, 711-729, 1033-1049; part_001:501-523
finish(v, h, html, rw) ==
    LET h1 == IF webhookConfigured(v, rw) THEN sendWebhook(h) ELSE h
    IN  respond(h1, answerResponse(html, publicSources(h.sources), h.mode))

\* step 3 after the call returned: the model's text cleaned, empty when it
\* does not look like HTML. route.ts:268-279, 634-637, 994-997; part_001:402-406
cleanModelText(v, raw) ==
    CASE v = "R1" -> LET t == stripFences_R1(trimT(raw))
                     IN  IF looksHtml_R1(t) THEN dedupeCitations(v, t) ELSE << >>
      [] v = "R2" -> LET t == stripFences_R2(trimT(raw))
                     IN  IF looksHtml_R1(t) THEN t ELSE << >>
      [] v = "R3" -> LET t == stripFences_R3(trimT(raw))
                     IN  IF looksHtml_R3(t) THEN t ELSE << >>
      [] OTHER    -> LET t == stripFences_R3(raw)
                     IN  IF looksHtml_R1(t) THEN t ELSE << >>

\* step 4 and the cleanups after it: the template when there is no model
\* answer. route.ts:286-353, 644-709, 1004-1031; part_001:413-500
finalHtml(v, modelHtml, m, n) ==
    LET a == IF modelHtml = << >> THEN fallback(v, m, n) ELSE modelHtml
    IN  CASE v = "R1" -> a
          [] v = "R2" -> dedupeCitations(v, stripFences_R2(a))
          [] OTHER    -> dedupeCitations(v, a)

\* the handler after generateContent settled with outcome o
\* route.ts:258-368, 627-729, 985-1049; part_000:82-87; part_001:171-182, 395-523
afterGenerate(v, h, o, q, rw) ==
    IF v \in Pipeline THEN
        LET modelHtml == IF o.kind = "throw" THEN << >> ELSE cleanModelText(v, o.text)
            go == IF o.kind = "throw" THEN "throw"
                  ELSE IF modelHtml = << >> THEN "unusable" ELSE "usable"
        IN  finish(v, [h EXCEPT !.genOutcome = go],
                   finalHtml(v, modelHtml, h.mode, Len(h.sources)), rw)
    ELSE IF o.kind = "throw" THEN catchTop(v, [h EXCEPT !.genOutcome = "throw"], o.msg)
    ELSE IF v = "P0" THEN
        respond([h EXCEPT !.genOutcome = "usable"],
                [NoResponse EXCEPT !.status = 200, !.ok = TRUE, !.question = q,
                                   !.has = {"ok", "question", "bullets", "sources"},
                                   !.bullets = toBullets(o.text), !.sources = h.sources])
    ELSE
        respond([h EXCEPT !.genOutcome = "usable"],
                [NoResponse EXCEPT !.status = 200, !.ok = TRUE, !.question = q,
                                   !.has = {"ok", "question", "bullets", "raw", "sources"},
                                   !.bullets = textToBullets(beforeSources(o.text)),
                                   !.raw = o.text, !.sources = h.sources])

\* the handler when GEMINI_API_KEY is not set
\* route.ts:260, 629, 987; part_000:64-70; part_001:168, 397
withoutGeneration(v, h, q, rw) ==
    LET h1 == [h EXCEPT !.genOutcome = "nokey"]
    IN  IF v \in Pipeline
        THEN finish(v, h1, finalHtml(v, << >>, h.mode, Len(h.sources)), rw)
        ELSE IF v = "P0"
        THEN respond(h1, [NoResponse EXCEPT !.status = 500, !.question = q,
                                            !.has = {"ok", "question", "bullets", "sources", "error"},
                                            !.sources = h.sources,
                                            !.error = "Missing GEMINI_API_KEY"])
        ELSE catchTop(v, h1, "Missing environment variable: GEMINI_API_KEY")

\* the items the handler numbers: route.ts:208, 607, 922-923; part_001:326
pickHits(v, hits) ==
    CASE v = "R2" -> slice(rankSources(hits), 8)
      [] v = "R3" -> slice(hits, 8)
      [] OTHER    -> hits

\* the handler after the search client settled: r is what the client gave,
\* kind what the provider did
\* route.ts:208-224, 607-625, 922-949; part_000:61-70; part_001:165-168, 326-361
afterSearch(v, h, kind, r, q, rw) ==
    IF r.threw
    THEN catchTop(v, [h EXCEPT !.searchOutcome = kind, !.searchReturned = "threw"], r.msg)
    ELSE
        LET h1 == [h EXCEPT !.searchOutcome = kind,
                            !.searchReturned = IF r.hits = << >> THEN "empty" ELSE "nonempty"]
        IN  IF v \in Pipeline
                /\ \E i \in 1..Len(r.hits) : r.hits[i].url = Missing /\ (v = "R2" \/ r.hits[i].title = "")
            THEN \* a method is called on an undefined url
                 catchTop(v, h1, "Cannot read properties of undefined")
            ELSE
                LET hits == pickHits(v, r.hits)
                    h2 == [h1 EXCEPT !.sources = toSources(v, hits)]
                IN  IF v \in Pipeline /\ Len(hits) = 0
                    THEN LET h3 == IF v \in {"R3", "P1B"} /\ FEEDBACK_WEBHOOK_URL
                                   THEN sendWebhook(h2) ELSE h2
                         IN  respond(h3, answerResponse(noSourcesHtml(v), << >>, h.mode))
                    ELSE IF GEMINI_KEY
                    THEN [h2 EXCEPT !.pc = "generating", !.calls = Append(@, "generate")]
                    ELSE withoutGeneration(v, h2, q, rw)

\* the call of the search client: route.ts:18, 500, 840; part_000:14-15; part_001:70, 280
startSearch(v, h, q, rw) ==
    IF TAVILY_KEY
    THEN [h EXCEPT !.pc = "searching", !.calls = Append(@, "search")]
    ELSE IF v = "P1A"
    THEN catchTop(v, [h EXCEPT !.searchOutcome = "nokey", !.searchReturned = "threw"],
                  "Missing environment variable: TAVILY_API_KEY")
    ELSE afterSearch(v, h, "nokey", [threw |-> FALSE, msg |-> "", hits |-> << >>], q, rw)

\* the mode of the request: route.ts:203-204, 603, 918; part_001:322
resolveMode(v, um, q) ==
    CASE v \in {"R1", "R2"} -> IF um # Missing /\ um # "auto" THEN um ELSE detectMode(v, q)
      [] v = "R3" -> IF um # Missing THEN um ELSE detectMode(v, q)
      [] OTHER -> detectMode(v, q)

\* the least trimmed length a question must have: route.ts:196, 599, 911; part_001:318
MinQuestionLen == 3

\* a validation that turns no question away
rejects_never(v, qu) == FALSE

\* whether the validation turns the question away
\* route.ts:196, 599, 911; part_000:53; part_001:157, 318
rejects(v, qu) ==
    CASE v = "P0"  -> qu.kind = "missing" \/ Len(trim(qu.text)) = 0
      [] v = "P1A" -> qu.kind # "string" \/ Len(qu.text) = 0
      [] OTHER     -> qu.kind = "missing" \/ Len(trim(qu.text)) < MinQuestionLen

\* the handler from the parsed body to its first await
\* route.ts:191-208, 593-607, 906-922; part_000:52-61; part_001:155-165, 317-326
afterBody(v, h, qu, um, rw) ==
    IF qu.kind = "number" /\ v # "P1A"
    THEN catchTop(v, h, "question.trim is not a function")
    ELSE IF rejects(v, qu) THEN respond(h, invalidResponse(v))
    ELSE IF v \in Pipeline
    THEN LET m == resolveMode(v, um, qu.text)
         IN  startSearch(v, [h EXCEPT !.mode = m, !.titles = sectionTitlesFor(m)], qu.text, rw)
    ELSE startSearch(v, h, qu.text, rw)

\* ------------------------------------------------------------------------
\* Actions
\* ------------------------------------------------------------------------
Set(h) ==
    /\ pc' = h.pc
    /\ mode' = h.mode
    /\ titles' = h.titles
    /\ sources' = h.sources
    /\ response' = h.response
    /\ calls' = h.calls
    /\ webhook' = h.webhook
    /\ searchOutcome' = h.searchOutcome
    /\ searchReturned' = h.searchReturned
    /\ genOutcome' = h.genOutcome
    /\ thrown' = h.thrown
    /\ escaped' = h.escaped

env == << variant, TAVILY_KEY, GEMINI_KEY, FEEDBACK_WEBHOOK_URL >>

\* a request whose body parses: POST runs to its first await or to its response
Receive ==
    /\ pc = "idle"
    /\ \E qu \in HandlerQuestions :
       \E um \in (IF variant \in {"R1", "R2", "R3"} THEN UserModes ELSE {Missing}) :
       \E rw \in (IF variant = "R2" THEN BOOLEAN ELSE {FALSE}) :
          /\ question' = qu
          /\ userMode' = um
          /\ reqWebhook' = rw
          /\ Set(afterBody(variant, fresh, qu, um, rw))
    /\ UNCHANGED << env, classifyVars, dedupeVars, pageVars >>

\* a request whose body is not JSON: req.json() rejects
ReceiveBadBody ==
    /\ pc = "idle"
    /\ \E m \in ErrMsgs :
          Set(catchTop(variant, fresh, m))
    /\ question' = NoQuestion
    /\ userMode' = Missing
    /\ reqWebhook' = FALSE
    /\ UNCHANGED << env, classifyVars, dedupeVars, pageVars >>

\* the fetch of the search client settles
SearchReturns ==
    /\ pc = "searching"
    /\ \E o \in SearchOutcomes :
          Set(afterSearch(variant, current, o.kind, webSearch(variant, o), question.text, reqWebhook))
    /\ UNCHANGED << env, question, userMode, reqWebhook, classifyVars, dedupeVars, pageVars >>

\* generateContent settles
GenerateReturns ==
    /\ pc = "generating"
    /\ \E o \in GenOutcomes :
          Set(afterGenerate(variant, current, o, question.text, reqWebhook))
    /\ UNCHANGED << env, question, userMode, reqWebhook, classifyVars, dedupeVars, pageVars >>

\* the webhook call settles, well or badly; its result is read by no one
\* route.ts:175-185, 579-587, 1069-1086; part_001:353, 519
WebhookSettles ==
    /\ webhook = "inflight"
    /\ \E w \in {"delivered", "failed"} : webhook' = w
    /\ UNCHANGED << env, pc, question, userMode, reqWebhook, mode, titles, sources,
                    response, calls, searchOutcome, searchReturned, genOutcome,
                    thrown, escaped, classifyVars, dedupeVars, pageVars >>

\* the next request arrives: nothing of the last one is kept
NextRequest ==
    /\ pc = "responded"
    /\ Set(fresh)
    /\ question' = NoQuestion
    /\ userMode' = Missing
    /\ reqWebhook' = FALSE
    /\ UNCHANGED << env, classifyVars, dedupeVars, pageVars >>

Init ==
    /\ variant \in Variants
    /\ TAVILY_KEY \in BOOLEAN
    /\ GEMINI_KEY \in BOOLEAN
    /\ FEEDBACK_WEBHOOK_URL \in BOOLEAN
    /\ pc = "idle"
    /\ question = NoQuestion
    /\ userMode = Missing
    /\ reqWebhook = FALSE
    /\ mode = ""
    /\ titles = << >>
    /\ sources = << >>
    /\ response = NoResponse
    /\ calls = << >>
    /\ webhook = "none"
    /\ searchOutcome = "none"
    /\ searchReturned = "none"
    /\ genOutcome = "none"
    /\ thrown = NoError
    /\ escaped = FALSE
    /\ cq = << >>
    /\ cv = "R1"
    /\ cmode = ""
    /\ ctitles = << >>
    /\ dtext = << >>
    /\ dv = ""
    /\ donce = << >>
    /\ dtwice = << >>
    /\ pageIdle

Next ==
    \/ Receive
    \/ ReceiveBadBody
    \/ SearchReturns
    \/ GenerateReturns
    \/ WebhookSettles
    \/ NextRequest

Spec == Init /\ [][Next]_vars

\* ------------------------------------------------------------------------
\* The classifier on its own: a question is drawn, detectMode and
\* sectionTitles of one handler are applied to it
\* ------------------------------------------------------------------------
InitClassify ==
    /\ variant = "R1"
    /\ TAVILY_KEY = FALSE
    /\ GEMINI_KEY = FALSE
    /\ FEEDBACK_WEBHOOK_URL = FALSE
    /\ pc = "classify"
    /\ question = NoQuestion
    /\ userMode = Missing
    /\ reqWebhook = FALSE
    /\ mode = ""
    /\ titles = << >>
    /\ sources = << >>
    /\ response = NoResponse
    /\ calls = << >>
    /\ webhook = "none"
    /\ searchOutcome = "none"
    /\ searchReturned = "none"
    /\ genOutcome = "none"
    /\ thrown = NoError
    /\ escaped = FALSE
    /\ cq \in ClassifyQuestions
    /\ cv = "R1"
    /\ cmode = ""
    /\ ctitles = << >>
    /\ dtext = << >>
    /\ dv = ""
    /\ donce = << >>
    /\ dtwice = << >>
    /\ pageIdle

Classify ==
    /\ pc = "classify"
    /\ cmode = ""
    /\ \E v \in ModeVariants :
          /\ cv' = v
          /\ cmode' = detectMode(v, cq)
          /\ ctitles' = sectionTitlesFor(detectMode(v, cq))
    /\ UNCHANGED << handlerVars, cq, dedupeVars, pageVars >>

NextClassify == Classify

SpecClassify == InitClassify /\ [][NextClassify]_vars

\* ------------------------------------------------------------------------
\* dedupeCitations on its own: a text is drawn, dedupeCitations of one
\* handler is applied to it, and again to the result
\* ------------------------------------------------------------------------
DedupeTokens == { "[1]", "[2]", ".", " " }

DedupeTexts == SeqsUpTo(DedupeTokens, MaxDedupeLen)

InitDedupe ==
    /\ variant = "R1"
    /\ TAVILY_KEY = FALSE
    /\ GEMINI_KEY = FALSE
    /\ FEEDBACK_WEBHOOK_URL = FALSE
    /\ pc = "dedupe"
    /\ question = NoQuestion
    /\ userMode = Missing
    /\ reqWebhook = FALSE
    /\ mode = ""
    /\ titles = << >>
    /\ sources = << >>
    /\ response = NoResponse
    /\ calls = << >>
    /\ webhook = "none"
    /\ searchOutcome = "none"
    /\ searchReturned = "none"
    /\ genOutcome = "none"
    /\ thrown = NoError
    /\ escaped = FALSE
    /\ cq = << >>
    /\ cv = "R1"
    /\ cmode = ""
    /\ ctitles = << >>
    /\ dtext \in DedupeTexts
    /\ dv = ""
    /\ donce = << >>
    /\ dtwice = << >>
    /\ pageIdle

Dedupe ==
    /\ pc = "dedupe"
    /\ dv = ""
    /\ \E v \in Pipeline :
          /\ dv' = v
          /\ donce' = dedupeCitations(v, dtext)
          /\ dtwice' = dedupeCitations(v, dedupeCitations(v, dtext))
    /\ UNCHANGED << handlerVars, classifyVars, dtext, pageVars >>

NextDedupe == Dedupe

SpecDedupe == InitDedupe /\ [][NextDedupe]_vars

\* ------------------------------------------------------------------------
\* linkifyCitations on its own: a text and a source count are drawn and
\* linkifyCitations is applied to them
\* ------------------------------------------------------------------------
\* part_003:21-28. The pattern \[(\d+)\] matches a bracketed number only, so
\* "[1, 2]" and words are left alone; "<a [n]>" stands for the anchor to
\* #src-n. maxN && n > maxN is false when maxN is 0.
linkifyCitations(text, maxN) ==
    [ i \in 1..Len(text) |->
        LET t == text[i]
            n == CASE t = "[0]" -> 0 [] t = "[1]" -> 1 [] t = "[2]" -> 2
                   [] t = "[3]" -> 3 [] OTHER -> 0 - 1
        IN  IF n = 0 - 1 THEN t
            ELSE IF n < 1 \/ (maxN # 0 /\ n > maxN) THEN t
            ELSE CASE n = 1 -> "<a [1]>" [] n = 2 -> "<a [2]>" [] OTHER -> "<a [3]>" ]

LinkTexts == SeqsUpTo({ "[0]", "[1]", "[2]", "[3]", "[1, 2]", "w" }, MaxLinkLen)

InitLinkify ==
    /\ variant = "R1"
    /\ TAVILY_KEY = FALSE
    /\ GEMINI_KEY = FALSE
    /\ FEEDBACK_WEBHOOK_URL = FALSE
    /\ pc = "linkify"
    /\ question = NoQuestion
    /\ userMode = Missing
    /\ reqWebhook = FALSE
    /\ mode = ""
    /\ titles = << >>
    /\ sources = << >>
    /\ response = NoResponse
    /\ calls = << >>
    /\ webhook = "none"
    /\ searchOutcome = "none"
    /\ searchReturned = "none"
    /\ genOutcome = "none"
    /\ thrown = NoError
    /\ escaped = FALSE
    /\ cq = << >>
    /\ cv = "R1"
    /\ cmode = ""
    /\ ctitles = << >>
    /\ dtext = << >>
    /\ dv = ""
    /\ donce = << >>
    /\ dtwice = << >>
    /\ page = ""
    /\ qText = ""
    /\ loading = FALSE
    /\ reqs = << >>
    /\ shown = NothingShown
    /\ history = << >>
    /\ now = 0
    /\ lastKey = ""
    /\ lastKeyAsks = 0
    /\ FEEDBACK_HOOK = FALSE
    /\ rated = "null"
    /\ feedbackGiven = FALSE
    /\ feedbackLoading = FALSE
    /\ fbSent = << >>
    /\ fbPending = 0
    /\ ltext \in LinkTexts
    /\ lmaxN \in 0..MaxLinkN
    /\ lout = << >>
    /\ ldone = FALSE

Linkify ==
    /\ pc = "linkify"
    /\ ~ldone
    /\ lout' = linkifyCitations(ltext, lmaxN)
    /\ ldone' = TRUE
    /\ UNCHANGED << handlerVars, classifyVars, dedupeVars, page, qText, loading,
                    reqs, shown, history, now, lastKey, lastKeyAsks,
                    FEEDBACK_HOOK, rated, feedbackGiven, feedbackLoading,
                    fbSent, fbPending, ltext, lmaxN >>

NextLinkify == Linkify

SpecLinkify == InitLinkify /\ [][NextLinkify]_vars

\* ------------------------------------------------------------------------
\* The pages: a mounted page, its question input, the requests it has sent
\* to /api/answer, what it displays, its history and its feedback controls.
\* A click on a history item, the export buttons and the feedback dialog of
\* Home are left out.
\* ------------------------------------------------------------------------
\* page.tsx:36
MAX_HISTORY == 10

\* a history list that keeps every item
historyAfter_uncapped(prev, item) == << item >> \o prev

\* page.tsx:198  setHistory((prev) => [item, ...prev].slice(0, MAX_HISTORY))
historyAfter(prev, item) == slice(<< item >> \o prev, MAX_HISTORY)

\* the history an earlier visit stored (page.tsx:139-144) and the mount effect
\* reads back (page.tsx:129-137): k items, first on top, all older than now
hydrated(k) == [ i \in 1..k |-> [req |-> 0, ts |-> 0 - i] ]

\* n calls of ask / handleSubmit that reach the fetch, within one event
\* page.tsx:156-172; part_003:38-47, 225-233; part_004:37-46; part_006:15-24
ask(n) ==
    IF n = 0
    THEN UNCHANGED << loading, reqs, shown, rated, feedbackGiven >>
    ELSE /\ loading' = TRUE
         /\ reqs' = reqs \o [ i \in 1..n |-> "pending" ]
         /\ shown' = IF page = "P3B" THEN shown ELSE NothingShown
         /\ rated' = IF page = "P3B" THEN "null" ELSE rated
         /\ feedbackGiven' = IF page = "P4" THEN FALSE ELSE feedbackGiven

\* the input's onChange
\* page.tsx:326; part_003:97, 296; part_004:155; part_006:55
Type ==
    /\ page # ""
    /\ qText' = IF qText = "" THEN "x" ELSE ""
    /\ UNCHANGED << handlerVars, classifyVars, dedupeVars, page, loading, reqs,
                    shown, history, now, lastKey, lastKeyAsks, FEEDBACK_HOOK,
                    rated, feedbackGiven, feedbackLoading, fbSent, fbPending,
                    ltext, lmaxN, lout, ldone >>

\* page.tsx:229-232: two independent tests, each calling ask(); ask returns
\* at once on an empty question (page.tsx:153-154)
onKeyDown ==
    /\ page = "Home"
    /\ \E k \in { "Enter", "Shift+Enter", "Mod+Enter", "Mod+Shift+Enter", "a" } :
          LET first == IF k \in { "Mod+Enter", "Mod+Shift+Enter" } THEN 1 ELSE 0
              second == IF k \in { "Enter", "Mod+Enter" } THEN 1 ELSE 0
              sent == IF qText = "" THEN 0 ELSE first + second
          IN  /\ Len(reqs) + sent <= MaxAsks
              /\ lastKey' = k
              /\ lastKeyAsks' = first + second
              /\ ask(sent)
    /\ UNCHANGED << handlerVars, classifyVars, dedupeVars, page, qText, history,
                    now, FEEDBACK_HOOK, feedbackLoading, fbSent, fbPending,
                    ltext, lmaxN, lout, ldone >>

\* the Ask button, disabled while loading and (but for part_006) on an empty
\* question: page.tsx:360-361; part_003:102-103, 301-302; part_004:130, 165;
\* part_006:60-61
ClickAsk ==
    /\ page # ""
    /\ ~loading
    /\ page = "P6" \/ qText # ""
    /\ Len(reqs) < MaxAsks
    /\ ask(1)
    /\ UNCHANGED << handlerVars, classifyVars, dedupeVars, page, qText, history,
                    now, lastKey, lastKeyAsks, FEEDBACK_HOOK, feedbackLoading,
                    fbSent, fbPending, ltext, lmaxN, lout, ldone >>

\* a follow-up chip, never disabled, asks its own text: page.tsx:379-397
ClickChip ==
    /\ page = "Home"
    /\ Len(reqs) < MaxAsks
    /\ ask(1)
    /\ UNCHANGED << handlerVars, classifyVars, dedupeVars, page, qText, history,
                    now, lastKey, lastKeyAsks, FEEDBACK_HOOK, feedbackLoading,
                    fbSent, fbPending, ltext, lmaxN, lout, ldone >>

\* the fetch of request r settles with outcome o and ask runs to its end:
\* "ok" a success status and a body without error, "httpError" a body that
\* parses and reports an error, "rejected" a fetch that rejects, "badJson" a
\* body that does not parse.
\* page.tsx:168-198 (no try: an exception ends ask where it is thrown);
\* part_003:41-62, 229-246; part_004:41-60; part_006:20-36 (try/catch/finally)
Settle ==
    /\ page # ""
    /\ \E r \in 1..Len(reqs), o \in { "ok", "httpError", "rejected", "badJson" } :
          /\ reqs[r] = "pending"
          /\ reqs' = [reqs EXCEPT ![r] = o]
          /\ IF page = "Home" /\ o \in { "rejected", "badJson" }
             THEN UNCHANGED << loading, shown, history, now >>
             ELSE /\ loading' = FALSE
                  /\ shown' = [kind |-> IF o = "ok" THEN "answer" ELSE "error", of |-> r]
                  /\ IF page = "Home" /\ o = "ok"
                     THEN \E t \in { now, now + 1 } :
                            /\ now' = t
                            /\ history' = historyAfter(history, [req |-> r, ts |-> t])
                     ELSE UNCHANGED << history, now >>
    /\ UNCHANGED << handlerVars, classifyVars, dedupeVars, page, qText, lastKey,
                    lastKeyAsks, FEEDBACK_HOOK, rated, feedbackGiven,
                    feedbackLoading, fbSent, fbPending, ltext, lmaxN, lout, ldone >>

\* a rating button of the second page of part_003, disabled once rated is set
\* part_003:249-273, 337-347
rate ==
    /\ page = "P3B"
    /\ rated = "null"
    /\ \E rating \in { "up", "down" } : rated' = rating
    /\ fbSent' = IF FEEDBACK_HOOK THEN Append(fbSent, shown.of) ELSE fbSent
    /\ UNCHANGED << handlerVars, classifyVars, dedupeVars, page, qText, loading,
                    reqs, shown, history, now, lastKey, lastKeyAsks,
                    FEEDBACK_HOOK, feedbackGiven, feedbackLoading, fbPending,
                    ltext, lmaxN, lout, ldone >>

\* a rating button of part_004, rendered with a response and disabled by
\* feedbackGiven and feedbackLoading, up to the await of the POST
\* part_004:63-99, 172, 202-217
handleFeedback ==
    /\ page = "P4"
    /\ shown # NothingShown
    /\ ~feedbackGiven
    /\ ~feedbackLoading
    /\ IF FEEDBACK_HOOK
       THEN /\ feedbackLoading' = TRUE
            /\ fbSent' = Append(fbSent, shown.of)
            /\ fbPending' = fbPending + 1
            /\ UNCHANGED feedbackGiven
       ELSE /\ feedbackGiven' = TRUE
            /\ UNCHANGED << feedbackLoading, fbSent, fbPending >>
    /\ UNCHANGED << handlerVars, classifyVars, dedupeVars, page, qText, loading,
                    reqs, shown, history, now, lastKey, lastKeyAsks,
                    FEEDBACK_HOOK, rated, ltext, lmaxN, lout, ldone >>

\* the POST of part_004 settles, either way: part_004:100-105
FeedbackSettles ==
    /\ page = "P4"
    /\ fbPending > 0
    /\ fbPending' = fbPending - 1
    /\ feedbackGiven' = TRUE
    /\ feedbackLoading' = FALSE
    /\ UNCHANGED << handlerVars, classifyVars, dedupeVars, page, qText, loading,
                    reqs, shown, history, now, lastKey, lastKeyAsks,
                    FEEDBACK_HOOK, rated, fbSent, ltext, lmaxN, lout, ldone >>

InitPage ==
    /\ variant = "R1"
    /\ TAVILY_KEY = FALSE
    /\ GEMINI_KEY = FALSE
    /\ FEEDBACK_WEBHOOK_URL = FALSE
    /\ pc = "page"
    /\ question = NoQuestion
    /\ userMode = Missing
    /\ reqWebhook = FALSE
    /\ mode = ""
    /\ titles = << >>
    /\ sources = << >>
    /\ response = NoResponse
    /\ calls = << >>
    /\ webhook = "none"
    /\ searchOutcome = "none"
    /\ searchReturned = "none"
    /\ genOutcome = "none"
    /\ thrown = NoError
    /\ escaped = FALSE
    /\ cq = << >>
    /\ cv = "R1"
    /\ cmode = ""
    /\ ctitles = << >>
    /\ dtext = << >>
    /\ dv = ""
    /\ donce = << >>
    /\ dtwice = << >>
    /\ page \in { "Home", "P3A", "P3B", "P4", "P6" }
    /\ qText = IF page \in { "P3A", "P6" } THEN "x" ELSE ""
    /\ loading = FALSE
    /\ reqs = << >>
    /\ shown = NothingShown
    /\ \E k \in { 0, MAX_HISTORY - 1, MAX_HISTORY } :
          history = IF page = "Home" THEN hydrated(k) ELSE << >>
    /\ now = 0
    /\ lastKey = ""
    /\ lastKeyAsks = 0
    /\ FEEDBACK_HOOK \in IF page \in { "P3B", "P4" } THEN BOOLEAN ELSE { FALSE }
    /\ rated = "null"
    /\ feedbackGiven = FALSE
    /\ feedbackLoading = FALSE
    /\ fbSent = << >>
    /\ fbPending = 0
    /\ ltext = << >>
    /\ lmaxN = 0
    /\ lout = << >>
    /\ ldone = FALSE

NextPage ==
    \/ Type
    \/ onKeyDown
    \/ ClickAsk
    \/ ClickChip
    \/ Settle
    \/ rate
    \/ handleFeedback
    \/ FeedbackSettles

SpecPage == InitPage /\ [][NextPage]_vars

\* ------------------------------------------------------------------------
\* Reading an answer back: its sections as the caller sees them
\* ------------------------------------------------------------------------
Range(s) == { s[i] : i \in 1..Len(s) }

\* the positions of the section headings of an answer
headingAt(html) == { i \in 1..Len(html) : html[i] = "<div fw>" }

\* the section titles of an answer, in the order they appear
titlesOf(html) ==
    LET H == headingAt(html)
        nth(k) == CHOOSE i \in H : Cardinality({ j \in H : j <= i }) = k
    IN  [k \in 1..Cardinality(H) |-> At(html, nth(k) + 1)]

\* the number of bullets under the heading at position i
bulletsUnder(html, i) ==
    LET nexts == { j \in headingAt(html) : j > i }
        stop == IF nexts = {} THEN Len(html) + 1 ELSE MinOf(nexts)
    IN  Cardinality({ j \in (i + 1)..(stop - 1) : html[j] = "<li>" })

\* a is b with some elements left out
RECURSIVE isSubsequence(_, _)
isSubsequence(a, b) ==
    IF a = << >> THEN TRUE
    ELSE IF b = << >> THEN FALSE
    ELSE IF Head(a) = Head(b) THEN isSubsequence(Tail(a), Tail(b))
    ELSE isSubsequence(a, Tail(b))

shortQuestion(qu) ==
    qu.kind = "missing" \/ (qu.kind = "string" /\ Len(trim(qu.text)) < 3)

\* ------------------------------------------------------------------------
\* Claims
\* ------------------------------------------------------------------------
\* C1: a request whose question is missing or shorter than 3 characters after
\* trimming gets a 400 with an error field, and no outbound call (search,
\* generation, webhook) is made for it.
C1_ShortQuestionRejected ==
    (pc # "idle" /\ shortQuestion(question))
        => /\ calls = << >>
           /\ pc = "responded"
           /\ response.status = 400
           /\ "error" \in response.has

\* C2: for a valid question, when the search client returns an empty list the
\* response is a 200 whose sources list is empty and whose answer carries the
\* no-sources message (the handlers that resolve a mode: the three of route.ts
\* and part_001:315).
C2_EmptySearchIsSuccess ==
    (variant \in Pipeline /\ pc = "responded" /\ searchReturned = "empty")
        => /\ response.status = 200
           /\ {"answer", "sources"} \subseteq response.has
           /\ response.sources = << >>
           /\ NoSourcesMsg \in Range(response.answer)

C2_Witness ==
    /\ variant \in Pipeline
    /\ pc = "responded"
    /\ searchOutcome = "ok"
    /\ searchReturned = "empty"
    /\ question = Str(W_knee)
    /\ response.status = 200
    /\ NoSourcesMsg \in Range(response.answer)

\* C3: with a valid question and a non-empty search result, a generation
\* provider that is not configured, throws or returns unusable output never
\* shows as an error: the response is a 200 built from the fallback template.
C3_GenerationFailureNeverAnError ==
    (pc = "responded" /\ searchReturned = "nonempty"
        /\ genOutcome \in {"nokey", "throw", "unusable"})
        => /\ response.status = 200
           /\ response.answer = finalHtml(variant, << >>, mode, Len(sources))

\* C4: when generation is unavailable (no credential, or the call fails) for a
\* valid question with at least one search result, the answer has every
\* section title of the resolved mode, in canonical order, each with at least
\* one bullet (the handlers that have a fallback template).
C4_FallbackHasEverySection ==
    (variant \in Pipeline /\ pc = "responded" /\ searchReturned = "nonempty"
        /\ genOutcome \in {"nokey", "throw"})
        => /\ "answer" \in response.has
           /\ titlesOf(response.answer) = sectionTitlesFor(response.mode)
           /\ \A i \in headingAt(response.answer) : bulletsUnder(response.answer, i) >= 1

C4_Witness ==
    /\ variant \in Pipeline
    /\ pc = "responded"
    /\ searchReturned = "nonempty"
    /\ genOutcome = "throw"
    /\ response.mode = "emergency"
    /\ Len(titlesOf(response.answer)) = 5

\* C5: the search client is fail-soft: with no credential, a non-success
\* status or a network exception it returns an empty list, and the handler
\* answers with the 200 no-sources response, never a 500.
C5_SearchFailSoft ==
    (pc = "responded" /\ searchOutcome \in {"nokey", "notOk", "netError"})
        => /\ searchReturned = "empty"
           /\ response.status = 200
           /\ response.sources = << >>
           /\ NoSourcesMsg \in Range(response.answer)

\* C6: no exception leaves the handler: whatever is thrown at any stage and
\* not absorbed where it arises reaches the outer catch and becomes a 500
\* with an error field; every finished request has a response.
C6_ExceptionsBecome500 ==
    /\ ~escaped
    /\ (pc = "responded" => response.status \in {200, 400, 500})
    /\ (thrown # NoError =>
            /\ pc = "responded"
            /\ response.status = 500
            /\ "error" \in response.has)
    /\ (searchReturned = "threw" => thrown # NoError)
    /\ (genOutcome = "throw" /\ variant \notin Pipeline => thrown # NoError)

C6_Witness ==
    /\ variant = "R3"
    /\ searchOutcome = "netError"
    /\ thrown = "E1"
    /\ response.status = 500
    /\ response.error = "E1"
    /\ ~escaped

\* C7: the classifier always answers, by case-insensitive substring matching:
\* radiology exactly when an imaging keyword matches and no emergency keyword
\* does, emergency whenever an emergency keyword matches (a question with
\* "ABCDE" and "unstable" is emergency whatever imaging keywords it has),
\* ortho otherwise.
C7_ClassifierPolicy ==
    cmode # "" =>
        LET s == toLowerCase(cq)
            imaging == \E k \in radioKeywords(cv) : includes(s, k)
            emergency == \E k \in edKeywords(cv) : includes(s, k)
        IN  /\ cmode \in {"radiology", "emergency", "ortho"}
            /\ (cmode = "radiology") <=> (imaging /\ ~emergency)
            /\ emergency => cmode = "emergency"
            /\ (~imaging /\ ~emergency) => cmode = "ortho"
            /\ (includes(cq, W_ABCDE) /\ includes(cq, W_unstable)) => cmode = "emergency"

C7_Witness ==
    /\ cmode = "emergency"
    /\ cq = W_CTchest \o W_ABCDE \o W_unstable
    /\ \E k \in radioKeywords(cv) : includes(toLowerCase(cq), k)

\* C8: the question "Gartland type II supracondylar humerus fracture - what
\* should I know?" with no forced mode resolves to ortho, with the titles
\* Classification, Risk Factors, Associated Injuries, Initial Management,
\* Definitive/Follow-up.
C8_GartlandIsOrtho ==
    (cmode # "" /\ cq = GartlandQuestion)
        => /\ cmode = "ortho"
           /\ ctitles = << "Classification", "Risk Factors", "Associated Injuries",
                           "Initial Management", "Definitive/Follow-up" >>

\* C9: a question that contains "CT chest" and no emergency keyword resolves
\* to radiology, whose titles are Clinical Question, Key Imaging Findings,
\* Differential Diagnosis, What to Look For, Suggested Report Impression.
C9_CTChestIsRadiology ==
    (cmode # "" /\ includes(cq, W_CTchest)
        /\ ~\E k \in edKeywords(cv) : includes(toLowerCase(cq), k))
        => /\ cmode = "radiology"
           /\ ctitles = << "Clinical Question", "Key Imaging Findings",
                           "Differential Diagnosis", "What to Look For",
                           "Suggested Report Impression" >>

C9_Witness ==
    /\ cmode = "radiology"
    /\ cv = "R1"
    /\ cq = W_CTchest \o W_knee
    /\ Len(ctitles) = 5

\* C10: whatever the generation provider returns, the section titles of the
\* returned answer are an ordered subset of the mode's canonical titles: a
\* title outside the list never appears, and the kept ones are in canonical
\* order.
C10_TitlesAreCanonical ==
    (variant \in Pipeline /\ pc = "responded" /\ searchReturned = "nonempty"
        /\ response.status = 200)
        => isSubsequence(titlesOf(response.answer), sectionTitlesFor(response.mode))

\* ------------------------------------------------------------------------
\* Reading citations and bullets back from an answer
\* ------------------------------------------------------------------------
\* every source id some citation cluster of the answer names
citedIds(html) == UNION { citeIds(html[i]) : i \in 1..Len(html) }

\* the ids of a source list
sourceIds(srcs) == { srcs[i].id : i \in 1..Len(srcs) }

\* the number of bullets of an answer
bulletCount(html) == Cardinality({ i \in 1..Len(html) : html[i] = "<li>" })

\* C11: in every successful response each citation index of the answer is the
\* id of a source returned in the same response, whether the answer is the
\* model's output or the fallback template.
C11_CitationsResolve ==
    (variant \in Pipeline /\ pc = "responded" /\ response.status = 200)
        => citedIds(response.answer) \subseteq sourceIds(response.sources)

\* C12: on the fallback path, with k >= 1 sources, every citation index the
\* template writes lies in 1..k.
C12_FallbackCitationsClipped ==
    (variant \in Pipeline /\ pc = "responded" /\ searchReturned = "nonempty"
        /\ genOutcome \in {"nokey", "throw", "unusable"})
        => \A i \in citedIds(response.answer) : 1 <= i /\ i <= Len(response.sources)

\* C13: generation output that has no section with a bullet is treated as
\* unusable: a 200 response with sources never has an empty answer or an
\* answer without bullets.
C13_NoBulletlessAnswer ==
    (variant \in Pipeline /\ pc = "responded" /\ response.status = 200
        /\ response.sources # << >>)
        => /\ response.answer # << >>
           /\ bulletCount(response.answer) >= 1

\* C14: the mode of a request is one of radiology, emergency, ortho: an absent
\* or "auto" request mode is resolved by the classifier, an explicit mode is
\* used as given, and the mode field of a successful response is one of the
\* three and is the one whose titles were used.
C14_ModeInClosedSet ==
    (variant \in {"R1", "R2", "R3"} /\ pc = "responded" /\ response.status = 200)
        => /\ response.mode \in {"radiology", "emergency", "ortho"}
           /\ response.mode = mode
           /\ titles = sectionTitlesFor(mode)
           /\ (userMode \in {Missing, "auto"} => mode = detectMode(variant, question.text))
           /\ (userMode \in {"radiology", "emergency", "ortho"} => mode = userMode)

\* C15: the stages of a request come in order: the search call is issued only
\* for a question that passed validation, the generation call only after the
\* search call returned a non-empty list, and never for a rejected question or
\* an empty search result; the handler only moves forward through its stages.
C15_StagesInOrder ==
    /\ [](variant \in Pipeline =>
            LET out == SelectSeq(calls, LAMBDA c : c # "webhook")
            IN  /\ out \in { << >>, << "search" >>, << "search", "generate" >> }
                /\ (out # << >> =>
                        question.kind = "string" /\ Len(trim(question.text)) >= 3)
                /\ (Len(out) = 2 => searchReturned = "nonempty" /\ sources # << >>)
                /\ (searchReturned = "empty" => Len(out) <= 1)
                /\ (pc = "searching" => out = << "search" >>)
                /\ (pc = "generating" => out = << "search", "generate" >>))
    /\ [][(variant \in Pipeline /\ pc' # pc) =>
            << pc, pc' >> \in { << "idle", "searching" >>, << "idle", "responded" >>,
                                << "searching", "generating" >>,
                                << "searching", "responded" >>,
                                << "generating", "responded" >>,
                                << "responded", "idle" >> }]_vars

C15_Witness ==
    /\ variant \in Pipeline
    /\ pc = "responded"
    /\ calls = << "search", "generate" >>
    /\ genOutcome = "usable"
    /\ response.status = 200

\* C16: the webhook call is fire-and-forget: while it is in flight the
\* response has already been sent, and however it settles the status and the
\* body of the response stay what they were.
C16_WebhookFireAndForget ==
    /\ [](webhook # "none" => pc = "responded" /\ response.status = 200)
    /\ [][(webhook = "inflight" /\ webhook' \in {"delivered", "failed"})
            => response' = response /\ pc' = pc]_vars

C16_Witness ==
    /\ variant = "R1"
    /\ webhook = "failed"
    /\ pc = "responded"
    /\ response.status = 200
    /\ response.sources # << >>

\* C17: every source of every response body has the fields id, title and url
\* and no other: the snippet is never returned.
C17_SourcesArePublic ==
    pc = "responded"
        => \A i \in 1..Len(response.sources) :
              DOMAIN response.sources[i] = {"id", "title", "url"}

\* C18: the ids of the returned sources are 1, 2, ..., n in list order, and
\* they are the ids of the sources the generation prompt was built from.
C18_SourceIdsSequential ==
    (pc = "responded" /\ response.status = 200)
        => /\ \A i \in 1..Len(response.sources) : response.sources[i].id = i
           /\ (response.sources # << >> =>
                  /\ Len(response.sources) = Len(sources)
                  /\ \A i \in 1..Len(sources) :
                        /\ sources[i].id = response.sources[i].id
                        /\ sources[i].url = response.sources[i].url)

C18_Witness ==
    /\ variant = "R2"
    /\ pc = "responded"
    /\ genOutcome = "usable"
    /\ Len(response.sources) = 2
    /\ response.sources[1].url = "https://who.int/g"
    /\ response.sources[2].id = 2

\* C19: no two sources of a response have the same URL once the query string
\* and the fragment are stripped.
C19_SourcesDedupedByUrl ==
    (variant \in {"R1", "R2"} /\ pc = "responded" /\ response.status = 200)
        => LET bare(u) == IF u = "https://a.org/p?x=1#f" THEN "https://a.org/p" ELSE u
           IN  \A i, j \in 1..Len(response.sources) :
                  i # j => bare(response.sources[i].url) # bare(response.sources[j].url)

\* C20: dedupeCitations is idempotent: applying it to its own result changes
\* nothing, also when a citation cluster is repeated three times in a row.
C20_DedupeIdempotent ==
    dv # "" => dtwice = donce

\* C21: the output of dedupeCitations never has two identical citation
\* clusters with only whitespace and at most one period between them
\* ("[1, 2]. [1, 2]" becomes "[1, 2]", "[5] [5]" becomes "[5]").
C21_DedupeCollapsesRepeats ==
    dv # "" =>
        ~\E i, j \in 1..Len(donce) :
            /\ i < j
            /\ donce[i] \in CiteTokens
            /\ donce[j] = donce[i]
            /\ \A k \in (i + 1)..(j - 1) : donce[k] \in {" ", "\n", "."}
            /\ Cardinality({ k \in (i + 1)..(j - 1) : donce[k] = "." }) <= 1

\* C22: a model response wrapped in code fences, with or without the html
\* tag, is cleaned to the same text as the response unwrapped, and the
\* returned answer has no fence marker left in it.
C22_FencedSameAsUnfenced ==
    (variant \in {"R1", "R2"} /\ pc = "responded" /\ genOutcome = "usable")
        => /\ "<fence>" \notin Range(response.answer)
           /\ cleanModelText(variant, << "<fence>", "html", "\n" >> \o GoodOrtho \o << "\n", "<fence>" >>)
                 = cleanModelText(variant, GoodOrtho)
           /\ cleanModelText(variant, << "<fence>", "\n" >> \o GoodOrtho \o << "\n", "<fence>" >>)
                 = cleanModelText(variant, GoodOrtho)

\* C23: the returned answer never has a section heading that is followed by
\* an empty bullet list or by no list.
C23_NoEmptySection ==
    (variant \in Pipeline /\ pc = "responded" /\ response.status = 200)
        => \A i \in headingAt(response.answer) : bulletsUnder(response.answer, i) >= 1

\* C24: the body of the 500 response for an unexpected exception does not
\* depend on the exception: whatever message the exception carries, the body
\* is the one returned for an exception without a message.
C24_ServerErrorIsGeneric ==
    (pc = "responded" /\ thrown # NoError /\ response.status = 500)
        => response = errorResponse(variant, "")

\* C25: loading does not outlast the requests: once every request the page
\* sent has settled, whatever its outcome (a rejected fetch and a body that
\* is not JSON included), loading is false again.
C25_LoadingEnds ==
    (/\ page \in { "Home", "P3A", "P6" }
     /\ reqs # << >>
     /\ \A r \in 1..Len(reqs) : reqs[r] # "pending")
        => ~loading

\* C26: when asks of separate events (a chip, the button, a key press that
\* asked once) overlapped on Home and every response has arrived with an
\* answer, what is displayed is the answer to the question issued last,
\* in whatever order the responses arrived.
C26_LatestQuestionShown ==
    (/\ page = "Home"
     /\ lastKeyAsks <= 1
     /\ Len(reqs) >= 2
     /\ \A r \in 1..Len(reqs) : reqs[r] = "ok")
        => shown = [kind |-> "answer", of |-> Len(reqs)]

\* C27: a key press in the question input calls ask at most once, and
\* exactly once for Enter without Shift and for Cmd/Ctrl+Enter.
C27_OneAskPerKey ==
    (page = "Home" /\ lastKey # "")
        => /\ lastKeyAsks <= 1
           /\ lastKey \in { "Enter", "Mod+Enter" } => lastKeyAsks = 1

\* C28: the history of Home never holds more than MAX_HISTORY items, its
\* items are in order of age with the newest on top, every item added since
\* the page was mounted belongs to a request that succeeded without an error
\* field, each such request has one item at most, and a request that fails
\* leaves the history as it was.
C28_HistoryBounded ==
    /\ [](page = "Home" =>
            /\ Len(history) <= MAX_HISTORY
            /\ \A i \in 1..(Len(history) - 1) : history[i].ts >= history[i + 1].ts
            /\ \A i \in 1..Len(history) :
                  history[i].req # 0 =>
                      /\ history[i].req \in 1..Len(reqs)
                      /\ reqs[history[i].req] = "ok"
                      /\ \A j \in 1..Len(history) : history[j].req = history[i].req => j = i)
    /\ [][(page = "Home" /\ \E r \in 1..Len(reqs) :
                reqs[r] = "pending" /\ reqs'[r] \in { "httpError", "rejected", "badJson" })
            => history' = history]_vars

\* the cap was reached and an item fell off the end: two answers were added
\* on top of a stored history, and a request failed
C28_Witness ==
    /\ page = "Home"
    /\ Len(history) = MAX_HISTORY
    /\ history[1].req # 0
    /\ history[2].req # 0
    /\ history[MAX_HISTORY].req = 0
    /\ \E r \in 1..Len(reqs) : reqs[r] \in { "httpError", "rejected", "badJson" }

\* C29: on the pages with rating buttons no answer has more than one
\* feedback POST sent for it, and an answer that is displayed with no POST
\* sent for it and none in flight has its rating buttons enabled.
C29_OneFeedbackPerAnswer ==
    (page \in { "P3B", "P4" } /\ FEEDBACK_HOOK) =>
        /\ \A r \in 1..Len(reqs) :
              Cardinality({ i \in 1..Len(fbSent) : fbSent[i] = r }) <= 1
        /\ (shown.of # 0 /\ ~loading /\ fbPending = 0 /\ shown.of \notin Range(fbSent))
              => /\ page = "P3B" => rated = "null"
                 /\ page = "P4" => ~feedbackGiven /\ ~feedbackLoading

\* C30: linkifyCitations turns the marker [n] into a link exactly when
\* 1 <= n <= maxN and leaves every other token as it was; with maxN = 0
\* nothing is turned into a link.
C30_LinkExactlyInRange ==
    ldone =>
        /\ Len(lout) = Len(ltext)
        /\ \A i \in 1..Len(ltext) :
              LET inRange == \E n \in 1..3 : ltext[i] = citeToken(n) /\ n <= lmaxN
                  linked == lout[i] \in { "<a [1]>", "<a [2]>", "<a [3]>" }
              IN  /\ linked <=> inRange
                  /\ ~linked => lout[i] = ltext[i]

====
